---- MODULE Spec2Model ----
(***************************************************************************)
(* chatify/chains.py: class CreateLLMChain.                                *)
(*                                                                         *)
(* One CreateLLMChain instance, built from a configuration mapping, whose  *)
(* methods __init__, create_chain and execute are the actions.  The three  *)
(* collaborators (ModelsFactory, LLMCacher, the langchain chain classes)   *)
(* are an environment: each of their calls either returns or raises, and   *)
(* the outcome is an input of the action that makes the call.              *)
(*                                                                         *)
(* Spec      one caller, every method call atomic.                        *)
(* SpecConc  several threads inside create_chain, one step per read or     *)
(*           write of self.llm_model.                                      *)
(***************************************************************************)
EXTENDS Naturals, Sequences, FiniteSets, TLC

\* ------------------------------------------------------------------ bounds
MaxCalls == 2        \* create_chain calls in one behaviour of Spec
MaxExecs == 2        \* execute calls in one behaviour of Spec
NThreads == 2        \* threads of SpecConc, one create_chain call each

\* ------------------------------------------------------------------ inputs
Empty == [k \in {} |-> k]                 \* the mapping {}

ChainTypes == {"default", "math", "bogus"}
ChainConfigs == {Empty} \cup {[chain_type |-> t] : t \in ChainTypes}
CacheConfigs == {Empty} \cup {[cache |-> b] : b \in BOOLEAN}
Configs ==
    {[chain_config |-> cc, cache_config |-> kc] : cc \in ChainConfigs, kc \in CacheConfigs}
    \cup {[chain_config |-> cc] : cc \in ChainConfigs}
    \cup {[cache_config |-> kc] : kc \in CacheConfigs}
    \cup {Empty}

ModelConfigs == {"A", "B"}                \* model_config values
PromptSpecs == {[content |-> "Q: {text}", input_variables |-> <<"text">>]}
Inputs == {"2+2", "hi"}                   \* execute's inputs

None == [kind |-> "None"]
Threads == 1..NThreads

VARIABLES
    config,        \* the mapping handed to __init__
    obj,           \* "unconstructed", "ready" (__init__ returned), "init_failed" (it raised)
    init_error,    \* what __init__ raised, "" if nothing
    chain_config,  \* self.chain_config
    cache,         \* self.cache
    llm_model,     \* self.llm_model
    chains,        \* the chains create_chain has returned
    calls,         \* one record per create_chain call of Spec, in order: its model_config,
                   \* what became of get_model, the field before and after, the
                   \* assignments to it, whether lines 69-73 returned, the error raised
    last,          \* what the last create_chain or execute call did and returned
    nGetModel,     \* calls of llm_models_factory.get_model
    nBuilt,        \* of which returned a model
    nPrompts,      \* PromptTemplate objects built by create_prompt
    nExec,         \* execute calls
    nCachedDone,   \* execute calls that returned on the cached path
    flushCalls,    \* calls of cacher.llm_cache.flush
    flushed,       \* of which returned
    pc,            \* SpecConc: each thread's position in create_chain
    loc            \* SpecConc: each thread's locals

vars == <<config, obj, init_error, chain_config, cache, llm_model, chains, calls, last,
          nGetModel, nBuilt, nPrompts, nExec, nCachedDone, flushCalls, flushed, pc, loc>>

seqVars == <<calls, last, nExec, nCachedDone, flushCalls, flushed>>
concVars == <<pc, loc>>
fieldVars == <<config, obj, init_error, chain_config, cache>>

\* -------------------------------------------------------------- __init__
\* config['chain_config'] and config['cache_config']['cache'] are plain
\* subscripts: a missing key raises KeyError out of __init__.
HasChainConfig(c) == "chain_config" \in DOMAIN c
HasCacheFlag(c) ==
    /\ "cache_config" \in DOMAIN c
    /\ "cache" \in DOMAIN c["cache_config"]
\* variant: chain_config read with a default instead of a subscript
InitRaises_chainOptional(c) == ~HasCacheFlag(c)

InitRaises(c) == ~HasChainConfig(c) \/ ~HasCacheFlag(c)

\* self.chain_factory = {'math': LLMMathChain, 'default': LLMChain}
chain_factory == [math |-> "LLMMathChain", default |-> "LLMChain"]

\* a thread's locals before its call: model_config and prompt_template, the
\* value line 69 read, the value about to be assigned, whether the thread
\* called get_model, the chain returned and the exception raised
NoLocals == [mc |-> "A", ps |-> None, seen |-> None, tmp |-> None, calledGM |-> FALSE,
             ret |-> None, error |-> ""]

Init ==
    /\ config \in Configs
    /\ obj = "unconstructed"
    /\ init_error = ""
    /\ chain_config = None
    /\ cache = None
    /\ llm_model = None
    /\ chains = {}
    /\ calls = <<>>
    /\ last = [op |-> "none"]
    /\ nGetModel = 0
    /\ nBuilt = 0
    /\ nPrompts = 0
    /\ nExec = 0
    /\ nCachedDone = 0
    /\ flushCalls = 0
    /\ flushed = 0
    /\ pc = [t \in Threads |-> "idle"]
    /\ loc = [t \in Threads |-> NoLocals]

\* CreateLLMChain(config): line 24 stores chain_config, line 25 sets llm_model
\* to None, line 26 reads the cache flag; the first missing key raises.
Initialize ==
    /\ obj = "unconstructed"
    /\ obj' = IF InitRaises(config) THEN "init_failed" ELSE "ready"
    /\ init_error' = IF InitRaises(config) THEN "KeyError" ELSE ""
    /\ chain_config' = IF HasChainConfig(config) THEN config["chain_config"] ELSE chain_config
    /\ cache' = IF InitRaises(config) THEN cache ELSE config["cache_config"]["cache"]
    /\ llm_model' = None
    /\ UNCHANGED <<config, chains, nGetModel, nBuilt, nPrompts>>
    /\ UNCHANGED seqVars
    /\ UNCHANGED concVars

\* ---------------------------------------------------------- create_chain
\* variant: the guard dropped, the model rebuilt on every call
ModelAbsent_unguarded(m) == TRUE

\* if self.llm_model is None
ModelAbsent(m) == m = None

\* llm_models_factory.get_model(model_config), when it returns: the n-th model
\* built, from configuration mc
get_model(mc, n) == [kind |-> "Model", id |-> n, cfg |-> mc, wraps |-> 0]

\* cacher.cache_llm(llm), when it returns: the same model, wrapped once more
cache_llm(m) == [m EXCEPT !.wraps = @ + 1]

\* if self.cache
UseCache(c) == c = TRUE

\* variant: the fallback names the wrong table entry
ResolveChainType_mathDefault(cc) ==
    IF "chain_type" \in DOMAIN cc THEN cc["chain_type"] ELSE "math"

\* try: chain_type = self.chain_config['chain_type']
\* except KeyError: chain_type = 'default'
ResolveChainType(cc) ==
    IF "chain_type" \in DOMAIN cc THEN cc["chain_type"] ELSE "default"

\* variant: chain_factory.get(chain_type, LLMChain)
FactoryLookup_get(t) ==
    IF t \in DOMAIN chain_factory THEN chain_factory[t] ELSE chain_factory["default"]

\* self.chain_factory[chain_type]: a plain subscript, outside the try
FactoryLookup(t) ==
    IF t \in DOMAIN chain_factory THEN chain_factory[t] ELSE "KeyError"

\* create_prompt(prompt): the n-th PromptTemplate built
create_prompt(ps, n) ==
    [kind |-> "PromptTemplate", id |-> n, template |-> ps.content,
     input_variables |-> ps.input_variables]

\* chain_factory[chain_type](llm=self.llm_model, prompt=...)
NewChain(cls, m, p) == [kind |-> "Chain", cls |-> cls, llm |-> m, prompt |-> p]

\* variant: the exception of get_model swallowed, the call carries on
OnGetModelFailure_swallowed(m) == [model |-> m, writes |-> 0, gm |-> "failed", error |-> ""]

\* get_model raised inside line 70: the assignment never happens and nothing
\* in create_chain catches the exception
OnGetModelFailure(m) == [model |-> m, writes |-> 0, gm |-> "failed", error |-> "ProviderError"]

\* Lines 69-73 for a caller that runs them without interruption: the field
\* after them, how often it was assigned, and what was raised.
\* The field is assigned the raw model (line 70) and then, if self.cache,
\* assigned again with the wrapped one (line 73).
AcquireModel(m, c, mc, nb, gmOK, clOK) ==
    IF ~ModelAbsent(m) THEN [model |-> m, writes |-> 0, gm |-> "skipped", error |-> ""]
    ELSE IF ~gmOK THEN OnGetModelFailure(m)
    ELSE IF ~UseCache(c)
         THEN [model |-> get_model(mc, nb + 1), writes |-> 1, gm |-> "ok", error |-> ""]
    ELSE IF ~clOK
         THEN [model |-> get_model(mc, nb + 1), writes |-> 1, gm |-> "ok", error |-> "CacheError"]
    ELSE [model |-> cache_llm(get_model(mc, nb + 1)), writes |-> 2, gm |-> "ok", error |-> ""]

\* Lines 75-83 given the field's value m: the chain type, the factory looked
\* up, whether create_prompt and the factory ran, the chain or the error.
\* The callee chain_factory[chain_type] is evaluated before its arguments.
BuildChain(m, cc, ps, np, cpOK, fOK) ==
    LET t == ResolveChainType(cc)
        f == FactoryLookup(t)
    IN  IF f = "KeyError"
        THEN [selected |-> t, factory |-> "none", prompts |-> 0, chain |-> None, error |-> "KeyError"]
        ELSE IF ~cpOK
        THEN [selected |-> t, factory |-> "none", prompts |-> 0, chain |-> None, error |-> "TemplateError"]
        ELSE IF ~fOK
        THEN [selected |-> t, factory |-> f, prompts |-> 1, chain |-> None, error |-> "ChainError"]
        ELSE [selected |-> t, factory |-> f, prompts |-> 1,
              chain |-> NewChain(f, m, create_prompt(ps, np + 1)), error |-> ""]

NotReached == [selected |-> "none", factory |-> "none", prompts |-> 0, chain |-> None, error |-> ""]

\* create_chain(model_config, prompt_template); gmOK, clOK, cpOK, fOK say
\* whether get_model, cache_llm, create_prompt and the chain class return.
create_chain(mc, ps, gmOK, clOK, cpOK, fOK) ==
    /\ obj = "ready"
    /\ Len(calls) < MaxCalls
    /\ LET a == AcquireModel(llm_model, cache, mc, nBuilt, gmOK, clOK)
           b == IF a.error = "" THEN BuildChain(a.model, chain_config, ps, nPrompts, cpOK, fOK)
                ELSE NotReached
           err == IF a.error # "" THEN a.error ELSE b.error
       IN  /\ llm_model' = a.model
           /\ nGetModel' = nGetModel + (IF a.gm = "skipped" THEN 0 ELSE 1)
           /\ nBuilt' = nBuilt + (IF a.gm = "ok" THEN 1 ELSE 0)
           /\ nPrompts' = nPrompts + b.prompts
           /\ chains' = IF err = "" THEN chains \cup {b.chain} ELSE chains
           /\ calls' = Append(calls, [mc |-> mc, gm |-> a.gm, error |-> err, before |-> llm_model,
                                      after |-> a.model, writes |-> a.writes,
                                      acquired |-> a.error = ""])
           /\ last' = [op |-> "create_chain", error |-> err, chain |-> b.chain, mc |-> mc,
                       selected |-> b.selected, factory |-> b.factory, prompts |-> b.prompts,
                       nPromptsBefore |-> nPrompts]
    /\ UNCHANGED fieldVars
    /\ UNCHANGED <<nExec, nCachedDone, flushCalls, flushed>>
    /\ UNCHANGED concVars

\* ----------------------------------------------------------------- execute
\* chain.prompt.format(text=inputs)
Format(p, text) == [template |-> p.template, text |-> text]

\* chain.llm(inputs, cache_obj=self.cacher.llm_cache): the model's raw output
LLMCall(m, p) == [kind |-> "completion", by |-> m.id, prompt |-> p]

\* chain(inputs): the chain's result mapping
ChainCall(ch, text) == [input |-> text, text |-> [kind |-> "text", of |-> LLMCall(ch.llm, Format(ch.prompt, text))]]

\* variant: the flush left out
FlushReached_never(fmtOK, llmOK) == FALSE

\* variant: the flush in a finally clause
FlushReached_finally(fmtOK, llmOK) == TRUE

\* llm_cache.flush() is the statement after the model call: it is reached
\* only if format and the model call returned
FlushReached(fmtOK, llmOK) == fmtOK /\ llmOK

\* execute(chain, inputs); fmtOK, llmOK, flOK, chOK say whether prompt.format,
\* chain.llm, llm_cache.flush and chain(...) return.
execute(ch, text, fmtOK, llmOK, flOK, chOK) ==
    /\ obj = "ready"
    /\ nExec < MaxExecs
    /\ ch \in chains
    /\ nExec' = nExec + 1
    /\ IF UseCache(cache)
       THEN LET fl == FlushReached(fmtOK, llmOK)
                err == IF ~fmtOK THEN "FormatError"
                       ELSE IF ~llmOK THEN "ModelError"
                       ELSE IF fl /\ ~flOK THEN "FlushError" ELSE ""
            IN  /\ flushCalls' = flushCalls + (IF fl THEN 1 ELSE 0)
                /\ flushed' = flushed + (IF fl /\ flOK THEN 1 ELSE 0)
                /\ nCachedDone' = nCachedDone + (IF err = "" THEN 1 ELSE 0)
                /\ last' = [op |-> "execute", error |-> err, chain |-> ch, inputs |-> text,
                            output |-> IF err = "" THEN LLMCall(ch.llm, Format(ch.prompt, text)) ELSE None,
                            formatted |-> TRUE, llmDirect |-> fmtOK, chainInvoked |-> FALSE,
                            flushCalled |-> fl, flushCallsBefore |-> flushCalls]
       ELSE /\ UNCHANGED <<flushCalls, flushed, nCachedDone>>
            /\ last' = [op |-> "execute", error |-> IF chOK THEN "" ELSE "ChainError",
                        chain |-> ch, inputs |-> text,
                        output |-> IF chOK THEN ChainCall(ch, text).text ELSE None,
                        formatted |-> FALSE, llmDirect |-> FALSE, chainInvoked |-> TRUE,
                        flushCalled |-> FALSE, flushCallsBefore |-> flushCalls]
    /\ UNCHANGED fieldVars
    /\ UNCHANGED <<llm_model, chains, calls, nGetModel, nBuilt, nPrompts>>
    /\ UNCHANGED concVars

\* A call ends at the first collaborator that raises, so the outcomes of a
\* call are: none raises, or one named collaborator is the first to raise.
CreateFaults == {"none", "get_model", "cache_llm", "create_prompt", "chain_class"}
ExecuteFaults == {"none", "format", "llm", "flush", "chain"}

CreateChainCall ==
    \E mc \in ModelConfigs, ps \in PromptSpecs, fault \in CreateFaults :
        create_chain(mc, ps, fault # "get_model", fault # "cache_llm",
                     fault # "create_prompt", fault # "chain_class")

ExecuteCall ==
    \E ch \in chains, text \in Inputs, fault \in ExecuteFaults :
        execute(ch, text, fault # "format", fault # "llm", fault # "flush", fault # "chain")

Next == Initialize \/ CreateChainCall \/ ExecuteCall

Spec == Init /\ [][Next]_vars


\* ------------------------------------------- create_chain, thread by thread
\* Each step holds at most one read or one write of self.llm_model.  A local
\* that is never read again (model_config after line 70, the value assigned
\* after its assignment) is reset, so that states differing only in dead
\* locals are one state.
\* thread t enters create_chain(mc, ps)
cc_enter(t, mc, ps) ==
    /\ obj = "ready"
    /\ pc[t] = "idle"
    /\ pc' = [pc EXCEPT ![t] = "l69"]
    /\ loc' = [loc EXCEPT ![t] = [NoLocals EXCEPT !.mc = mc, !.ps = ps]]
    /\ UNCHANGED fieldVars
    /\ UNCHANGED <<llm_model, chains, nGetModel, nBuilt, nPrompts>>
    /\ UNCHANGED seqVars

\* line 69: if self.llm_model is None
cc_check(t) ==
    /\ pc[t] = "l69"
    /\ loc' = [loc EXCEPT ![t].seen = llm_model,
                           ![t].mc = IF ModelAbsent(llm_model) THEN @ ELSE NoLocals.mc]
    /\ pc' = [pc EXCEPT ![t] = IF ModelAbsent(llm_model) THEN "l70" ELSE "l75"]
    /\ UNCHANGED fieldVars
    /\ UNCHANGED <<llm_model, chains, nGetModel, nBuilt, nPrompts>>
    /\ UNCHANGED seqVars

\* line 70, right-hand side: self.llm_models_factory.get_model(model_config)
cc_get_model(t, gmOK) ==
    /\ pc[t] = "l70"
    /\ nGetModel' = nGetModel + 1
    /\ IF gmOK
       THEN /\ nBuilt' = nBuilt + 1
            /\ loc' = [loc EXCEPT ![t].tmp = get_model(loc[t].mc, nBuilt + 1), ![t].calledGM = TRUE,
                                   ![t].mc = NoLocals.mc]
            /\ pc' = [pc EXCEPT ![t] = "l70_store"]
       ELSE /\ nBuilt' = nBuilt
            /\ loc' = [loc EXCEPT ![t].error = OnGetModelFailure(llm_model).error, ![t].calledGM = TRUE,
                                   ![t].mc = NoLocals.mc]
            /\ pc' = [pc EXCEPT ![t] = "done"]
    /\ UNCHANGED fieldVars
    /\ UNCHANGED <<llm_model, chains, nPrompts>>
    /\ UNCHANGED seqVars

\* line 70, the assignment; then line 72: if self.cache
cc_store(t) ==
    /\ pc[t] = "l70_store"
    /\ llm_model' = loc[t].tmp
    /\ loc' = [loc EXCEPT ![t].tmp = None]
    /\ pc' = [pc EXCEPT ![t] = IF UseCache(cache) THEN "l73" ELSE "l75"]
    /\ UNCHANGED fieldVars
    /\ UNCHANGED <<chains, nGetModel, nBuilt, nPrompts>>
    /\ UNCHANGED seqVars

\* line 73, right-hand side: self.cacher.cache_llm(self.llm_model) reads the
\* field again, not the model this thread built
cc_cache_llm(t, clOK) ==
    /\ pc[t] = "l73"
    /\ IF clOK
       THEN /\ loc' = [loc EXCEPT ![t].tmp = cache_llm(llm_model)]
            /\ pc' = [pc EXCEPT ![t] = "l73_store"]
       ELSE /\ loc' = [loc EXCEPT ![t].error = "CacheError"]
            /\ pc' = [pc EXCEPT ![t] = "done"]
    /\ UNCHANGED fieldVars
    /\ UNCHANGED <<llm_model, chains, nGetModel, nBuilt, nPrompts>>
    /\ UNCHANGED seqVars

\* line 73, the assignment
cc_store_cached(t) ==
    /\ pc[t] = "l73_store"
    /\ llm_model' = loc[t].tmp
    /\ loc' = [loc EXCEPT ![t].tmp = None]
    /\ pc' = [pc EXCEPT ![t] = "l75"]
    /\ UNCHANGED fieldVars
    /\ UNCHANGED <<chains, nGetModel, nBuilt, nPrompts>>
    /\ UNCHANGED seqVars

\* lines 75-83: the one read of self.llm_model is the llm= argument
cc_build(t, cpOK, fOK) ==
    /\ pc[t] = "l75"
    /\ LET b == BuildChain(llm_model, chain_config, loc[t].ps, nPrompts, cpOK, fOK)
       IN  /\ loc' = [loc EXCEPT ![t].ret = b.chain, ![t].error = b.error]
           /\ nPrompts' = nPrompts + b.prompts
           /\ chains' = IF b.error = "" THEN chains \cup {b.chain} ELSE chains
    /\ pc' = [pc EXCEPT ![t] = "done"]
    /\ UNCHANGED fieldVars
    /\ UNCHANGED <<llm_model, nGetModel, nBuilt>>
    /\ UNCHANGED seqVars

ThreadStep(t) ==
    \/ \E mc \in ModelConfigs, ps \in PromptSpecs : cc_enter(t, mc, ps)
    \/ cc_check(t)
    \/ \E gmOK \in BOOLEAN : cc_get_model(t, gmOK)
    \/ cc_store(t)
    \/ \E clOK \in BOOLEAN : cc_cache_llm(t, clOK)
    \/ cc_store_cached(t)
    \/ \E fault \in {"none", "create_prompt", "chain_class"} :
          cc_build(t, fault # "create_prompt", fault # "chain_class")

NextConc == Initialize \/ \E t \in Threads : ThreadStep(t)

SpecConc == Init /\ [][NextConc]_vars


\* ------------------------------------------------------------ properties
CallIdx == 1..Len(calls)
AllCallsReturned == \A i \in CallIdx : calls[i].error = ""

\* the chain_type the caller configured, read off the mapping given to __init__
Configured == config["chain_config"]
TypeMissing == "chain_type" \notin DOMAIN Configured
TypeIs(t) == "chain_type" \in DOMAIN Configured /\ Configured["chain_type"] = t

\* C1: with one caller, get_model returns a model at most once in the life of
\* the instance, every chain returned is bound to the one memoized handle, and
\* in a run of create_chain calls that all returned get_model was called once,
\* by the first call with that call's model_config; every later call skipped it.
C1_ModelBuiltOnce ==
    /\ nBuilt <= 1
    /\ \A c \in chains : c.llm = llm_model
    /\ (AllCallsReturned /\ calls # <<>>) =>
          /\ nGetModel = 1
          /\ calls[1].gm = "ok"
          /\ llm_model.cfg = calls[1].mc
          /\ \A i \in CallIdx : i > 1 => calls[i].gm = "skipped" /\ calls[i].after = calls[1].after

C1_Witness ==
    /\ Len(calls) >= 2
    /\ AllCallsReturned
    /\ calls[1].mc # calls[2].mc
    /\ Cardinality(chains) >= 2
    /\ llm_model.cfg = calls[1].mc

\* the chain class the table holds for the configured chain_type
C2_Expected == IF TypeIs("math") THEN "LLMMathChain" ELSE "LLMChain"

\* C2: a create_chain call never raises KeyError when chain_type is missing,
\* "default" or "math"; the only chain class it invokes is LLMChain for a
\* missing or "default" chain_type and LLMMathChain for "math"; it invokes
\* that class exactly when get_model, cache_llm and create_prompt returned;
\* and the chain returned is of that class, bound to the memoized handle and
\* to a PromptTemplate built in this call and shared with no other chain.
C2_FactorySelection ==
    (last.op = "create_chain" /\ (TypeMissing \/ TypeIs("default") \/ TypeIs("math"))) =>
        /\ last.error # "KeyError"
        /\ last.factory \in {"none", C2_Expected}
        /\ last.factory = C2_Expected <=> last.error \in {"", "ChainError"}
        /\ last.selected \in {"none", IF TypeIs("math") THEN "math" ELSE "default"}
        /\ last.error = "" =>
              /\ last.chain \in chains
              /\ last.chain.cls = C2_Expected
              /\ last.chain.llm = llm_model
              /\ last.chain.prompt.id = last.nPromptsBefore + 1
              /\ \A c \in chains \ {last.chain} : c.prompt.id # last.chain.prompt.id

C2_Witness ==
    /\ obj = "ready"
    /\ TypeMissing
    /\ Len(calls) >= 2
    /\ last.op = "create_chain"
    /\ last.error = ""
    /\ last.chain.cls = "LLMChain"
    /\ Cardinality(chains) >= 2

\* C3: when chain_type is present and neither "math" nor "default", no
\* create_chain call returns a chain, invokes a chain class or builds a
\* prompt; the chain type is not replaced by "default"; and every call in
\* which lines 69-73 did not raise ends in the KeyError of the factory table.
C3_UnknownTypeRaises ==
    (obj = "ready" /\ ~TypeMissing /\ ~TypeIs("math") /\ ~TypeIs("default")) =>
        /\ chains = {}
        /\ nPrompts = 0
        /\ \A i \in CallIdx : calls[i].error \in {"KeyError", "ProviderError", "CacheError"}
        /\ \A i \in CallIdx : calls[i].error = "KeyError" <=> calls[i].acquired
        /\ last.op = "create_chain" =>
              /\ last.chain = None
              /\ last.factory = "none"
              /\ last.selected \in {"none", Configured["chain_type"]}
              /\ last.error = "KeyError" <=> last.selected = Configured["chain_type"]

C3_Witness ==
    /\ obj = "ready"
    /\ TypeIs("bogus")
    /\ Len(calls) >= 2
    /\ \A i \in CallIdx : calls[i].error = "KeyError"
    /\ last.op = "create_chain"

\* C4: an execute call that returns took the path the cache flag names.
\* Cached: the prompt was formatted, the model was called directly, the chain
\* was not, flush was called once, and the output is the model's raw output.
\* Uncached: the chain was called, the output is the "text" field of its
\* result, and flush has never been called.  The flushes completed so far
\* are as many as the cached execute calls that returned.
C4_ExecutePaths ==
    obj = "ready" =>
        /\ flushed = nCachedDone
        /\ ~UseCache(cache) => flushCalls = 0
        /\ (last.op = "execute" /\ last.error = "") =>
              IF cache = TRUE
              THEN /\ last.formatted /\ last.llmDirect /\ ~last.chainInvoked
                   /\ last.flushCalled
                   /\ flushCalls = last.flushCallsBefore + 1
                   /\ last.output = LLMCall(last.chain.llm, Format(last.chain.prompt, last.inputs))
              ELSE /\ last.chainInvoked /\ ~last.llmDirect /\ ~last.formatted
                   /\ ~last.flushCalled
                   /\ flushCalls = last.flushCallsBefore
                   /\ last.output = ChainCall(last.chain, last.inputs).text

C4_Witness ==
    /\ obj = "ready"
    /\ cache = TRUE
    /\ nExec = 2
    /\ nCachedDone = 2
    /\ flushed = 2
    /\ last.op = "execute"

\* C5: the stored handle is wrapped exactly when the cache flag is set: with
\* the flag set self.llm_model is None or a wrapped model, also after a call
\* in which cache_llm raised; with the flag clear it is never wrapped.
C5_StoredHandleWrapped ==
    (obj = "ready" /\ llm_model # None) => (llm_model.wraps > 0 <=> cache = TRUE)

\* C6: __init__ raises (KeyError, the ConfigError of the design) whenever
\* chain_config or cache_config.cache is missing, and then no instance exists
\* to call; with both present it returns, whether or not chain_type is there.
C6_RequiredKeys ==
    obj # "unconstructed" =>
        IF /\ "chain_config" \in DOMAIN config
           /\ "cache_config" \in DOMAIN config
           /\ "cache" \in DOMAIN config["cache_config"]
        THEN /\ obj = "ready"
             /\ init_error = ""
             /\ chain_config = config["chain_config"]
             /\ cache = config["cache_config"]["cache"]
        ELSE /\ obj = "init_failed"
             /\ init_error = "KeyError"
             /\ chains = {} /\ calls = <<>> /\ nExec = 0 /\ nGetModel = 0
             /\ \A t \in Threads : pc[t] = "idle"

C6_Witness ==
    /\ obj = "init_failed"
    /\ "chain_config" \in DOMAIN config
    /\ "cache_config" \in DOMAIN config
    /\ "cache" \notin DOMAIN config["cache_config"]

\* thread t is past the right-hand side of line 70, or never went there
Past70(t) == pc[t] \notin {"idle", "l69", "l70"}

\* C7: with several threads in create_chain the only thing that keeps a
\* thread from get_model is what it read at line 69: a thread calls get_model
\* exactly if it read None there, however many threads read None, so get_model
\* is called once per thread that read None, and two chains are bound to
\* different models only when more than one model was built.
C7_GuardUnsynchronised ==
    /\ \A t \in Threads : loc[t].calledGM => loc[t].seen = None
    /\ \A t \in Threads : (Past70(t) /\ loc[t].seen = None) => loc[t].calledGM
    /\ nGetModel = Cardinality({t \in Threads : loc[t].calledGM})
    /\ \A c1, c2 \in chains : c1.llm.id # c2.llm.id => nBuilt >= 2

\* both threads read None, both built a model, both returned a chain, and
\* the two chains hold different models
C7_Witness ==
    /\ \A t \in {1, 2} : pc[t] = "done" /\ loc[t].seen = None /\ loc[t].error = ""
    /\ nGetModel >= 2
    /\ nBuilt >= 2
    /\ loc[1].ret.llm.id # loc[2].ret.llm.id

\* C8: the handle field is assigned at most once in the life of the instance,
\* no create_chain call assigns it more than once, and a create_chain call
\* that raises leaves it as it was.
C8_WrittenOnceBySuccess ==
    /\ \A i \in CallIdx : calls[i].writes <= 1
    /\ \A i \in CallIdx : calls[i].error # "" => calls[i].after = calls[i].before
    /\ \A i, j \in CallIdx : (calls[i].writes > 0 /\ calls[j].writes > 0) => i = j

\* the first create_chain call in which get_model returned
C9_FirstBuilt == CHOOSE i \in CallIdx : calls[i].gm = "ok" /\ \A j \in CallIdx : calls[j].gm = "ok" => i <= j

\* C9: a create_chain call in which get_model raises ends in that error,
\* returns no chain and leaves the handle absent; get_model is called at most
\* once per create_chain call; the call after a failed one calls get_model
\* again; a model is built from the model_config of the call that built it,
\* so the stored handle carries the model_config of the first call in which
\* get_model returned.
C9_GetModelFailure ==
    /\ \A i \in CallIdx : calls[i].gm = "failed" =>
          /\ calls[i].error = "ProviderError"
          /\ calls[i].before = None /\ calls[i].after = None /\ calls[i].writes = 0
          /\ i < Len(calls) => calls[i + 1].gm # "skipped"
    /\ \A i \in CallIdx : calls[i].gm = "ok" => calls[i].after.cfg = calls[i].mc
    /\ nGetModel = Cardinality({i \in CallIdx : calls[i].gm # "skipped"})
    /\ (last.op = "create_chain" /\ last.error = "ProviderError") =>
          last.chain = None /\ last.factory = "none" /\ llm_model = None
    /\ (obj = "ready" /\ llm_model # None) =>
          /\ \E i \in CallIdx : calls[i].gm = "ok"
          /\ llm_model.cfg = calls[C9_FirstBuilt].mc
          /\ \A j \in CallIdx : j < C9_FirstBuilt => calls[j].gm = "failed"

C9_Witness ==
    /\ Len(calls) >= 2
    /\ calls[1].gm = "failed"
    /\ calls[2].gm = "ok"
    /\ calls[1].mc # calls[2].mc
    /\ llm_model # None
    /\ llm_model.cfg = calls[2].mc

\* the step is an execute call
C10_IsExecute == nExec' = nExec + 1

\* C10: every execute call leaves self.llm_model, self.cache and
\* self.chain_config as they were; on the cached path it calls flush only
\* when prompt.format and the model call have returned, so a call that ends in
\* an error of either leaves the flush count as it was; and it calls flush at
\* most once.
C10_FlushAfterModelCall ==
    [][C10_IsExecute =>
        /\ llm_model' = llm_model /\ cache' = cache /\ chain_config' = chain_config
        /\ last'.op = "execute"
        /\ last'.error \in {"FormatError", "ModelError"} =>
              flushCalls' = flushCalls /\ flushed' = flushed /\ ~last'.flushCalled
        /\ flushCalls' # flushCalls =>
              /\ flushCalls' = flushCalls + 1
              /\ cache = TRUE
              /\ last'.llmDirect
              /\ last'.error \in {"", "FlushError"}]_vars

C10_Witness ==
    /\ obj = "ready"
    /\ cache = TRUE
    /\ nExec = 2
    /\ last.op = "execute"
    /\ last.error = "ModelError"
    /\ flushCalls = 1
    /\ nCachedDone = 1

====
